---- MODULE Spec2Model ----
(***************************************************************************)
(* A model of update_prices.py: the value formatter (human_readable,       *)
(* format_value) and the substitution engine update_html, which threads    *)
(* one document through the per-field passes, the 52-week-range pass, the  *)
(* net-income class toggle and the two date stamps.                        *)
(*                                                                         *)
(* Strings are sequences of lexemes.  A lexeme is one character wherever   *)
(* a regular expression or a slice of the source can tell characters      *)
(* apart: all of a text run, "<", ">", the closing tags, blanks, the sign  *)
(* tokens r g a.  Inside an open tag a literal the source only ever        *)
(* matches whole is one atom (data-ticker="LYSCF", class="val , the tag    *)
(* name).  The middle dot U+00B7 is written "(middot)", the en dash        *)
(* U+2013 "(endash)".                                                      *)
(*                                                                         *)
(* Numbers are exact decimals m * 10^e in place of Python floats; the      *)
(* values drawn below have no rounding ties, so binary rounding and        *)
(* decimal rounding agree on them.                                         *)
(***************************************************************************)
EXTENDS Integers, Sequences, FiniteSets, TLC

(***************************************************************************)
(* Configuration (lines 25-50).  The ticker table is cut down to the OTC   *)
(* anchor LYSCF and the one AUD ticker, kept in TICKER_MAP order.          *)
(***************************************************************************)
TICKER_MAP == <<"LYSCF", "LYC_AX">>

AUD_TICKERS == {"LYC_AX"}

SimpleFields == <<"price", "mktcap", "revenue", "net_income", "target_price", "pe_forward">>

FIELDS == {"price", "mktcap", "revenue", "net_income", "52wk_high", "52wk_low",
           "target_price", "pe_forward"}

(***************************************************************************)
(* Decimal numbers: [p |-> present, m |-> mantissa, e |-> exponent].       *)
(* None is the record with p = FALSE.                                      *)
(***************************************************************************)
None == [p |-> FALSE, m |-> 0, e |-> 0]

Dec(m, e) == [p |-> TRUE, m |-> m, e |-> e]

Abs(n) == IF n < 0 THEN -n ELSE n

NegOf(v) == [v EXCEPT !.m = -v.m]

AbsOf(v) == [v EXCEPT !.m = Abs(v.m)]

Pow10(k) == CASE k = 0 -> 1 [] k = 1 -> 10 [] k = 2 -> 100 [] k = 3 -> 1000
              [] k = 4 -> 10000 [] k = 5 -> 100000 [] k = 6 -> 1000000
              [] k = 7 -> 10000000 [] k = 8 -> 100000000 [] k = 9 -> 1000000000

\* n / d rounded to the nearest integer, ties to even (n >= 0, d > 0).
RoundDiv(n, d) ==
    LET q == n \div d
        r == n % d
    IN  IF 2 * r > d \/ (2 * r = d /\ q % 2 = 1) THEN q + 1 ELSE q

\* |v| * 10^k rounded to an integer.
Scaled(v, k) ==
    LET s == v.e + k
    IN  IF s >= 0 THEN Abs(v.m) * Pow10(s)
        ELSE IF -s > 9 THEN 0
        ELSE RoundDiv(Abs(v.m), Pow10(-s))

\* abs(v) >= 10^k
AbsGE(v, k) ==
    LET a == Abs(v.m)
        d == k - v.e
    IN  IF a = 0 THEN FALSE
        ELSE IF d <= 0 THEN TRUE
        ELSE IF d > 9 THEN FALSE
        ELSE a >= Pow10(d)

\* v / 10^k
Shift(v, k) == [v EXCEPT !.e = v.e - k]

DigitChar(d) == CASE d = 0 -> "0" [] d = 1 -> "1" [] d = 2 -> "2" [] d = 3 -> "3"
                  [] d = 4 -> "4" [] d = 5 -> "5" [] d = 6 -> "6" [] d = 7 -> "7"
                  [] d = 8 -> "8" [] d = 9 -> "9"

RECURSIVE Digits(_)
Digits(n) == IF n < 10 THEN <<DigitChar(n)>>
             ELSE Digits(n \div 10) \o <<DigitChar(n % 10)>>

\* exactly w digits, zero padded on the left
RECURSIVE Padded(_, _)
Padded(n, w) == IF w = 0 THEN <<>>
                ELSE Padded(n \div 10, w - 1) \o <<DigitChar(n % 10)>>

\* the "," option of the format mini-language: groups of three digits
RECURSIVE Grouped(_)
Grouped(n) == IF n < 1000 THEN Digits(n)
              ELSE Grouped(n \div 1000) \o <<",">> \o Padded(n % 1000, 3)

\* f"{v:.{dp}f}" and, with comma, f"{v:,.{dp}f}".  The sign of a negative
\* float is kept when it rounds to zero ("-0.00").
Fixed(v, dp, comma) ==
    LET c == Scaled(v, dp)
        whole == c \div Pow10(dp)
        frac == c % Pow10(dp)
    IN  (IF v.m < 0 THEN <<"-">> ELSE <<>>)
        \o (IF comma THEN Grouped(whole) ELSE Digits(whole))
        \o (IF dp = 0 THEN <<>> ELSE <<".">> \o Padded(frac, dp))

human_readable(n) ==
    IF AbsGE(n, 12) THEN Fixed(Shift(n, 12), 2, FALSE) \o <<"T">>
    ELSE IF AbsGE(n, 9) THEN Fixed(Shift(n, 9), 2, FALSE) \o <<"B">>
    ELSE IF AbsGE(n, 6) THEN Fixed(Shift(n, 6), 1, FALSE) \o <<"M">>
    ELSE IF AbsGE(n, 3) THEN Fixed(Shift(n, 3), 1, FALSE) \o <<"K">>
    ELSE Fixed(n, 0, FALSE)

CurrencyPrefix(ticker_id) == IF ticker_id \in AUD_TICKERS THEN <<"A", "$">> ELSE <<"$">>

\* the magnitude taken without abs(): the sign stays in the number
NegMagnitudeSigned(value) == human_readable(value)

\* the magnitude written after the prefix of a negative net income
NegMagnitude(value) == human_readable(AbsOf(value))

format_value(value, field, ticker_id) ==
    LET prefix == CurrencyPrefix(ticker_id)
    IN  CASE field = "price" -> prefix \o Fixed(value, 2, TRUE)
          [] field = "mktcap" -> prefix \o human_readable(value)
          [] field = "revenue" ->
                IF value.m = 0 THEN prefix \o <<"0">>
                ELSE prefix \o human_readable(value)
          [] field = "net_income" ->
                IF value.m < 0 THEN <<"-">> \o prefix \o NegMagnitude(value)
                ELSE prefix \o human_readable(value)
          [] field = "target_price" -> prefix \o Fixed(value, 2, TRUE)
          [] field = "pe_forward" -> Fixed(value, 1, FALSE) \o <<"x">>
          [] OTHER -> Fixed(value, IF value.e < 0 THEN -value.e ELSE 0, FALSE)

(***************************************************************************)
(* Lexemes of the document.                                                *)
(***************************************************************************)
LT == "<"

GT == ">"

SP == " "

NL == "\n"

QUOTE == "\""

MID == "(middot)"

\* " (endash) " of line 182
DASH == <<" ", "(endash)", " ">>

\* "US OTC: ~$" of lines 190 and 196
OTC == <<"U", "S", " ", "O", "T", "C", ":", " ", "~", "$">>

\* "52wk: " of lines 182 and 201
HDR == <<"5", "2", "w", "k", ":", " ">>

CLASS_VAL == "class=\"val "

CLASS_MONO == "class=\"mono "

Whitespace == {SP, NL, "\t"}

DigitDot == {"0", "1", "2", "3", "4", "5", "6", "7", "8", "9", "."}

SignTokens == {"r", "g", "a"}

TK(ticker_id) == "data-ticker=\"" \o ticker_id \o "\""

FD(field) == "data-field=\"" \o field \o "\""

NOW == "Nov 04, 2026 09:30 AM ET"

DATE_LABEL == "Price (Nov 04)"

(***************************************************************************)
(* The regular expressions of update_html, on lexeme sequences.            *)
(***************************************************************************)
\* the least element of a set of positions, or the default when it is empty
Least(S, default) == IF S = {} THEN default ELSE CHOOSE j \in S : \A k \in S : j <= k

\* least j >= i with s[j] \in C, or 0
NextIn(s, i, C) == Least({j \in i..Len(s) : s[j] \in C}, 0)

\* least j >= i with s[j] \notin C, or Len(s) + 1
NextNotIn(s, i, C) == Least({j \in i..Len(s) : s[j] \notin C}, Len(s) + 1)

NoMatch == [ok |-> FALSE, g |-> 0, l |-> 0]

\* A (\s+ B)? at i: the index of the last lexeme of the literal head, or 0.
\* B = "" stands for a pattern with the single literal A.
HeadEnd(s, i, A, B) ==
    IF s[i] # A THEN 0
    ELSE IF B = "" THEN i
    ELSE LET j == NextNotIn(s, i + 1, Whitespace)
         IN  IF j > i + 1 /\ j <= Len(s) /\ s[j] = B THEN j ELSE 0

\* (A\s+B[^>]*>)[^<]*(<) at i: g is the index of the ">" ending group 1,
\* l the index of the "<" that is group 2.
MatchAt(s, i, A, B) ==
    LET h == HeadEnd(s, i, A, B)
        g == IF h = 0 THEN 0 ELSE NextIn(s, h + 1, {GT})
        l == IF g = 0 THEN 0 ELSE NextIn(s, g + 1, {LT})
    IN  IF l = 0 THEN NoMatch ELSE [ok |-> TRUE, g |-> g, l |-> l]

\* the leftmost non-overlapping matches from pos on (re.sub, re.findall)
RECURSIVE Matches(_, _, _, _)
Matches(s, pos, A, B) ==
    LET i == NextIn(s, pos, {A})
    IN  IF i = 0 THEN <<>>
        ELSE LET m == MatchAt(s, i, A, B)
             IN  IF m.ok THEN <<m>> \o Matches(s, m.l + 1, A, B)
                 ELSE Matches(s, i + 1, A, B)

\* s with the text of the k-th match replaced by texts[k]; groups 1 and 2 stay
RECURSIVE Splice(_, _, _, _, _)
Splice(s, ms, texts, k, from) ==
    IF k > Len(ms) THEN SubSeq(s, from, Len(s))
    ELSE SubSeq(s, from, ms[k].g) \o texts[k] \o Splice(s, ms, texts, k + 1, ms[k].l)

\* re.sub(pattern, rf"\g<1>{formatted}\2", s)
SubMarked(s, A, B, formatted) ==
    LET ms == Matches(s, 1, A, B)
    IN  Splice(s, ms, [k \in 1..Len(ms) |-> formatted], 1, 1)

\* len(re.findall(pattern, s))
FindAll(s, A, B) == Len(Matches(s, 1, A, B))

\* Python's s[a:b] for 0 <= a, with 1-based inclusive bounds first..last
Slice(s, first, last) ==
    LET hi == IF last > Len(s) THEN Len(s) ELSE last
    IN  IF first > hi THEN <<>> ELSE SubSeq(s, first, hi)

\* the literal lit stands at position i of t
StartsAt(t, i, lit) == i + Len(lit) - 1 <= Len(t) /\ SubSeq(t, i, i + Len(lit) - 1) = lit

\* least i >= pos where lit stands, or 0
Find(t, pos, lit) == Least({i \in pos..Len(t) : t[i] = lit[1] /\ StartsAt(t, i, lit)}, 0)

\* re.search(r"^US OTC: ~\$[\d.]+ (middot) ", t): the length of group 0, or 0
otc_match(t) ==
    IF ~StartsAt(t, 1, OTC) THEN 0
    ELSE LET a == Len(OTC) + 1
             k == NextNotIn(t, a, DigitDot)
         IN  IF k > a /\ StartsAt(t, k, <<SP, MID, SP>>) THEN k + 2 ELSE 0

\* 52wk: [^(middot)<]+((middot) .+)$ at h: group 1, or << >>
SuffixAt(t, h) ==
    LET n == Len(t)
        a == h + Len(HDR)
        d == NextIn(t, a, {MID, LT})
        body == IF d = 0 THEN <<>> ELSE SubSeq(t, d + 2, n)
        last == IF body # <<>> /\ body[Len(body)] = NL THEN Len(body) - 1 ELSE Len(body)
    IN  IF StartsAt(t, h, HDR) /\ d > a /\ t[d] = MID /\ d + 1 <= n /\ t[d + 1] = SP
           /\ last >= 1 /\ \A j \in 1..last : body[j] # NL
        THEN SubSeq(t, d, d + 1 + last) ELSE <<>>

RECURSIVE SuffixFrom(_, _)
SuffixFrom(t, pos) ==
    LET h == Find(t, pos, HDR)
    IN  IF h = 0 THEN <<>>
        ELSE IF SuffixAt(t, h) # <<>> THEN SuffixAt(t, h)
        ELSE SuffixFrom(t, h + 1)

\* re.search(r"52wk: [^(middot)<]+((middot) .+)$", t): group 1, or << >>
suffix_match(t) == SuffixFrom(t, 1)

(***************************************************************************)
(* The 52-week-range pass (lines 175-214).                                 *)
(***************************************************************************)
Get(record, key) == IF key \in DOMAIN record THEN record[key] ELSE None

\* data.get("LYSCF", {}).get("price")
LyscfPrice(data) == IF "LYSCF" \in DOMAIN data THEN Get(data["LYSCF"], "price") ELSE None

\* f"52wk: {low_fmt} (endash) {high_fmt}"
NewRange(ticker_id, low, high) ==
    HDR \o CurrencyPrefix(ticker_id) \o Fixed(low, 2, TRUE)
        \o DASH \o CurrencyPrefix(ticker_id) \o Fixed(high, 2, TRUE)

\* the text range_replacer decodes: the slice of the enclosing html, taken
\* at the offsets of the match m = [g, l]
OldText(src, m) == Slice(src, m.g + 1, m.l - 1)

\* what range_replacer puts between group 1 and group 2 of match m
range_replacer(src, m, data, new_range) ==
    LET old_text == OldText(src, m)
        n == otc_match(old_text)
        lyscf_price == LyscfPrice(data)
        otc_prefix == IF n = 0 THEN <<>>
                      ELSE IF lyscf_price.p
                           THEN OTC \o Fixed(lyscf_price, 2, FALSE) \o <<SP, MID, SP>>
                           ELSE SubSeq(old_text, 1, n)
        group1 == suffix_match(old_text)
        suffix == IF group1 # <<>> THEN <<SP>> \o group1 ELSE <<>>
    IN  otc_prefix \o new_range \o suffix

\* re.sub(pattern, range_replacer, s) while the variable html holds src
SubRange(s, src, A, B, data, new_range) ==
    LET ms == Matches(s, 1, A, B)
    IN  Splice(s, ms, [k \in 1..Len(ms) |-> range_replacer(src, ms[k], data, new_range)], 1, 1)

\* the html the second re.sub's range_replacer reads (line 209): the
\* enclosing variable, still the document from before the first re.sub
ClosureHtml(html, new_html) == html

\* lines 205-209: both marker orders
RangeRewrite(h, ticker_id, data, new_range) ==
    LET new_html == SubRange(h, h, TK(ticker_id), FD("52wk_range"), data, new_range)
    IN  SubRange(new_html, ClosureHtml(h, new_html), FD("52wk_range"), TK(ticker_id),
                 data, new_range)

\* what one range pass adds to changes (lines 211-213)
RangeCount(h, new_html) == IF new_html # h THEN 1 ELSE 0

(***************************************************************************)
(* The net-income class toggle (lines 216-231).                            *)
(***************************************************************************)
\* (class="val )[rga](" data-ticker="T" data-field="net_income") at i
ClassBeforeAt(s, i, C, ticker_id) ==
    /\ i + 6 <= Len(s)
    /\ s[i] = C
    /\ s[i + 1] \in SignTokens
    /\ s[i + 2] = QUOTE
    /\ s[i + 3] = SP
    /\ s[i + 4] = TK(ticker_id)
    /\ s[i + 5] = SP
    /\ s[i + 6] = FD("net_income")

\* re.sub(color_pattern, ...) and re.sub(ov_pattern, ...): matches cannot overlap
SubClassBefore(s, C, ticker_id, new_class) ==
    [j \in 1..Len(s) |-> IF j > 1 /\ ClassBeforeAt(s, j - 1, C, ticker_id)
                         THEN new_class ELSE s[j]]

\* greatest c in lo..hi with s[c] = C, a sign token and a quote after it, or 0
RECURSIVE LastClass(_, _, _, _)
LastClass(s, lo, hi, C) ==
    IF hi < lo THEN 0
    ELSE IF s[hi] = C /\ hi + 2 <= Len(s) /\ s[hi + 1] \in SignTokens /\ s[hi + 2] = QUOTE
         THEN hi
         ELSE LastClass(s, lo, hi - 1, C)

\* (data-ticker="T" data-field="net_income"[^>]*class="val )[rga](") at i:
\* the index of the sign token, or 0
ClassAfterAt(s, i, C, ticker_id) ==
    IF ~(i + 2 <= Len(s) /\ s[i] = TK(ticker_id) /\ s[i + 1] = SP
         /\ s[i + 2] = FD("net_income"))
    THEN 0
    ELSE LET g == NextIn(s, i + 3, {GT})
             hi == IF g = 0 THEN Len(s) ELSE g - 1
             c == LastClass(s, i + 3, hi, C)
         IN  IF c = 0 \/ c + 2 > hi THEN 0 ELSE c + 1

\* the sign-token positions of the leftmost non-overlapping matches
RECURSIVE ClassAfterHits(_, _, _, _)
ClassAfterHits(s, pos, C, ticker_id) ==
    LET i == NextIn(s, pos, {TK(ticker_id)})
    IN  IF i = 0 THEN {}
        ELSE LET x == ClassAfterAt(s, i, C, ticker_id)
             IN  IF x # 0 THEN {x} \cup ClassAfterHits(s, x + 2, C, ticker_id)
                 ELSE ClassAfterHits(s, i + 1, C, ticker_id)

\* re.sub(color_pattern2, ...)
SubClassAfter(s, C, ticker_id, new_class) ==
    LET hits == ClassAfterHits(s, 1, C, ticker_id)
    IN  [j \in 1..Len(s) |-> IF j \in hits THEN new_class ELSE s[j]]

\* zero taken for a loss
NewClassZeroRed(net_income) == IF net_income.m <= 0 THEN "r" ELSE "g"

NewClass(net_income) == IF net_income.m < 0 THEN "r" ELSE "g"

\* lines 221-231
ClassToggle(h, ticker_id, net_income) ==
    LET new_class == NewClass(net_income)
        h1 == SubClassBefore(h, CLASS_VAL, ticker_id, new_class)
        h2 == SubClassAfter(h1, CLASS_VAL, ticker_id, new_class)
    IN  SubClassBefore(h2, CLASS_MONO, ticker_id, new_class)

(***************************************************************************)
(* The per-field pass (lines 153-173) and the stamps (lines 233-247).      *)
(***************************************************************************)
\* the ticker left out of the pattern: the field of every ticker is rewritten
FieldRewriteAnyTicker(h, ticker_id, field, formatted) ==
    LET h1 == SubMarked(SubMarked(h, TK("LYSCF"), FD(field), formatted),
                        FD(field), TK("LYSCF"), formatted)
    IN  SubMarked(SubMarked(h1, TK("LYC_AX"), FD(field), formatted),
                  FD(field), TK("LYC_AX"), formatted)

\* the price pattern used for every field of the ticker
FieldRewritePriceOnly(h, ticker_id, field, formatted) ==
    SubMarked(SubMarked(h, TK(ticker_id), FD("price"), formatted),
              FD("price"), TK(ticker_id), formatted)

\* the reversed attribute order left out
FieldRewriteForwardOnly(h, ticker_id, field, formatted) ==
    SubMarked(h, TK(ticker_id), FD(field), formatted)

\* lines 162-167: both marker orders
FieldRewrite(h, ticker_id, field, formatted) ==
    SubMarked(SubMarked(h, TK(ticker_id), FD(field), formatted),
              FD(field), TK(ticker_id), formatted)

\* the reversed attribute order left out of the count
FieldCountForwardOnly(h, new_html, ticker_id, field) ==
    IF new_html # h THEN FindAll(h, TK(ticker_id), FD(field)) ELSE 0

\* what one field pass adds to changes (lines 169-172)
FieldCount(h, new_html, ticker_id, field) ==
    IF new_html # h
    THEN FindAll(h, TK(ticker_id), FD(field)) + FindAll(h, FD(field), TK(ticker_id))
    ELSE 0

\* the increment left out
SkipCountForgotten(skipped) == skipped

\* what a field pass with an absent value makes of skipped (line 156)
SkipCount(skipped) == skipped + 1

Stamps(h) ==
    SubMarked(SubMarked(h, FD("last-updated"), "", <<"Prices last updated: ", NOW>>),
              FD("price_date"), "", <<DATE_LABEL>>)

(***************************************************************************)
(* Inputs: RawRecords as fetch_all_data builds them (lines 124-133) and    *)
(* documents in the marker convention of index.html.                       *)
(***************************************************************************)
Record(price, mktcap, revenue, net_income, high, low, target_price, pe_forward) ==
    [f \in FIELDS |->
        CASE f = "price" -> price
          [] f = "mktcap" -> mktcap
          [] f = "revenue" -> revenue
          [] f = "net_income" -> net_income
          [] f = "52wk_high" -> high
          [] f = "52wk_low" -> low
          [] f = "target_price" -> target_price
          [] f = "pe_forward" -> pe_forward]

\* 4.50, 12.5e9, 0, -3.2e6, 18.80, 3.50, 6.25, 12.5
ProfileA == Record(Dec(450, -2), Dec(125, 8), Dec(0, 0), Dec(-32, 5),
                   Dec(1880, -2), Dec(350, -2), Dec(625, -2), Dec(125, -1))

\* 5.10, 2.5e12, 232.7e6, 0, 8.80, 3.50, absent, absent
ProfileB == Record(Dec(510, -2), Dec(25, 11), Dec(2327, 5), Dec(0, 0),
                   Dec(880, -2), Dec(350, -2), None, None)

\* absent, absent, 1500, absent, absent, 3.00, 1234.50, 11.37
ProfileC == Record(None, None, Dec(1500, 0), None,
                   None, Dec(300, -2), Dec(123450, -2), Dec(1137, -2))

\* 4.10, 999999, 999.6, 150, 9.00, 3.00, 6.00, 11.0
ProfileD == Record(Dec(410, -2), Dec(999999, 0), Dec(9996, -1), Dec(150, 0),
                   Dec(900, -2), Dec(300, -2), Dec(600, -2), Dec(110, -1))

Records == {
    [t \in {"LYSCF", "LYC_AX"} |-> IF t = "LYSCF" THEN ProfileA ELSE ProfileB],
    [t \in {"LYSCF", "LYC_AX"} |-> IF t = "LYSCF" THEN ProfileB ELSE ProfileA],
    [t \in {"LYSCF", "LYC_AX"} |-> ProfileC],
    [t \in {"LYC_AX"} |-> ProfileA],
    [t \in {"LYSCF"} |-> ProfileD] }

\* <name attrs>text</name>
Close(name) ==
    CASE name = "span" -> <<LT, "/", "s", "p", "a", "n", GT>>
      [] name = "div" -> <<LT, "/", "d", "i", "v", GT>>
      [] name = "td" -> <<LT, "/", "t", "d", GT>>
      [] name = "th" -> <<LT, "/", "t", "h", GT>>
      [] name = "p" -> <<LT, "/", "p", GT>>
      [] name = "b" -> <<LT, "/", "b", GT>>

Element(name, attrs, text) == <<LT, name, SP>> \o attrs \o <<GT>> \o text \o Close(name)

\* "52wk: $3.00 (endash) $9.00"
OldRange(prefix) == HDR \o prefix \o <<"3", ".", "0", "0">> \o DASH \o prefix
                        \o <<"9", ".", "0", "0">>

\* "US OTC: ~$4.10 (middot) "
OldOtc == OTC \o <<"4", ".", "1", "0", SP, MID, SP>>

\* " (middot) ATH $10.25"
Ath(prefix) == <<SP, MID, SP, "A", "T", "H", SP>> \o prefix \o <<"1", "0", ".", "2", "5">>

FieldElements == {
    Element("span", <<TK("LYSCF"), SP, FD("price")>>, <<"$", "4", ".", "1", "0">>),
    Element("span", <<FD("price"), NL, TK("LYSCF"), SP, "id=\"p\"">>,
            <<"$", "4", ".", "5", "0">>),
    Element("td", <<"id=\"t\"", SP, TK("LYC_AX"), SP, SP, FD("target_price")>>,
            <<"A", "$", "6", ".", "0", "0">>),
    Element("td", <<TK("LYSCF"), SP, CLASS_MONO, "g", QUOTE, SP, FD("net_income")>>,
            <<"$", "1", ".", "0", "M">>),
    Element("span", <<FD("price"), SP, TK("LYC_AX")>>, <<"A", "$", "5", ".", "0", "0">>),
    <<LT, "span", SP, TK("LYSCF"), SP, FD("price"), GT>>
        \o Element("b", <<"id=\"b\"">>, <<"$", "4", ".", "1", "0">>)
        \o Close("span") }

RangeElements == {
    Element("span", <<TK("LYSCF"), SP, FD("52wk_range")>>, OldRange(<<"$">>)),
    Element("span", <<FD("52wk_range"), SP, TK("LYSCF")>>,
            OldOtc \o OldRange(<<"$">>) \o <<SP, MID, SP>>),
    Element("span", <<TK("LYC_AX"), SP, FD("52wk_range")>>,
            OldOtc \o OldRange(<<"A", "$">>) \o Ath(<<"A", "$">>)),
    Element("span", <<FD("52wk_range"), SP, TK("LYSCF")>>,
            OldOtc \o OldRange(<<"$">>) \o Ath(<<"$">>)),
    Element("span", <<TK("LYSCF"), SP, FD("52wk_range")>>,
            HDR \o <<"$", "3">> \o DASH \o <<"$", "9">>) }

ClassElements == {
    Element("div", <<CLASS_VAL, "g", QUOTE, SP, TK("LYSCF"), SP, FD("net_income")>>,
            <<"$", "1", ".", "0", "M">>),
    Element("div", <<TK("LYSCF"), SP, FD("net_income"), SP, "id=\"n\"", SP,
                     CLASS_VAL, "a", QUOTE>>, <<"$", "1", ".", "0", "M">>),
    Element("td", <<CLASS_MONO, "r", QUOTE, SP, TK("LYC_AX"), SP, FD("net_income")>>,
            <<"A", "$", "1", ".", "0", "M">>),
    Element("div", <<CLASS_VAL, "g", QUOTE, SP, FD("net_income"), SP, TK("LYSCF")>>,
            <<"$", "1", ".", "0", "M">>),
    Element("td", <<TK("LYC_AX"), SP, FD("net_income"), SP, CLASS_MONO, "g", QUOTE>>,
            <<"A", "$", "1", ".", "0", "M">>) }

PageElements == {
    Element("p", <<FD("last-updated")>>, <<"Prices last updated: ", "Jan 01, 2026 09:00 AM ET">>),
    Element("th", <<FD("price_date")>>, <<"Price (Jan 01)">>),
    Element("span", <<TK("LYSCF"), SP, FD("price")>>, <<"$", "4", ".", "1", "0">>),
    Element("span", <<TK("LYC_AX"), SP, FD("52wk_range")>>,
            OldOtc \o OldRange(<<"A", "$">>) \o Ath(<<"A", "$">>)),
    Element("div", <<CLASS_VAL, "g", QUOTE, SP, TK("LYSCF"), SP, FD("net_income")>>,
            <<"$", "1", ".", "0", "M">>) }

\* the most elements a document holds
MaxElems == 2

RECURSIVE Concat(_)
Concat(parts) == IF parts = <<>> THEN <<>> ELSE Head(parts) \o Concat(Tail(parts))

DocsOver(elements) ==
    { Concat(parts) : parts \in UNION { [1..n -> elements] : n \in 1..MaxElems } }

Documents == DocsOver(FieldElements) \cup DocsOver(RangeElements)
             \cup DocsOver(ClassElements) \cup DocsOver(PageElements)

(***************************************************************************)
(* update_html as a state machine: one step per pass of the loops.         *)
(***************************************************************************)
VARIABLES
    html,       \* the document being threaded through the passes
    data,       \* the RawRecord mapping, ticker_id -> field -> value
    changes,    \* line 148
    skipped,    \* line 149
    pc,         \* "field", "range", "class", "stamp", "done"
    ti,         \* position of the outer loop in data.items()
    fi,         \* position of the inner loop in the six simple fields
    run,        \* 1: first call; 2: the call on the first call's result
    out1,       \* the document the first call returned
    prev,       \* history: html before the last pass
    last,       \* history: the last pass and the counters before it
    differ      \* history: elements whose content a pass changed, summed

vars == <<html, data, changes, skipped, pc, ti, fi, run, out1, prev, last, differ>>

\* data.items(): insertion order of fetch_all_data, that is TICKER_MAP order
RECURSIVE ItemsFrom(_, _)
ItemsFrom(d, k) == IF k > Len(TICKER_MAP) THEN <<>>
                   ELSE (IF TICKER_MAP[k] \in DOMAIN d THEN <<TICKER_MAP[k]>> ELSE <<>>)
                        \o ItemsFrom(d, k + 1)

Items(d) == ItemsFrom(d, 1)

ticker_id == Items(data)[ti]

ticker_data == data[ticker_id]

field == SimpleFields[fi]

(***************************************************************************)
(* Reading a document back: its elements, for stating the properties.      *)
(* An element is an open tag, from the first "<" after the previous ">"    *)
(* to its ">", and the text run up to the next "<".                        *)
(***************************************************************************)
RECURSIVE ElemsFrom(_, _)
ElemsFrom(doc, pos) ==
    LET g == NextIn(doc, pos, {GT})
        t == NextIn(doc, pos, {LT})
        l == IF g = 0 THEN 0 ELSE NextIn(doc, g + 1, {LT})
    IN  IF g = 0 THEN <<>>
        ELSE <<[ts |-> IF t = 0 \/ t > g THEN g ELSE t,
                g |-> g,
                re |-> IF l = 0 THEN Len(doc) ELSE l - 1,
                closed |-> l # 0]>> \o ElemsFrom(doc, g + 1)

Elems(doc) == ElemsFrom(doc, 1)

TagOf(doc, el) == SubSeq(doc, el.ts, el.g)

RunOf(doc, el) == SubSeq(doc, el.g + 1, el.re)

Carries(doc, el, A) == \E j \in el.ts..el.g : doc[j] = A

\* A, then blanks only, then B, inside the tag
AdjacentIn(doc, el, A, B) ==
    \E j \in el.ts..el.g : \E k \in (j + 2)..el.g :
        /\ doc[j] = A
        /\ doc[k] = B
        /\ \A x \in (j + 1)..(k - 1) : doc[x] \in Whitespace

Marked(doc, el, t, f) == Carries(doc, el, TK(t)) /\ Carries(doc, el, FD(f))

MarkedAdjacent(doc, el, t, f) ==
    AdjacentIn(doc, el, TK(t), FD(f)) \/ AdjacentIn(doc, el, FD(f), TK(t))

Range(seq) == {seq[k] : k \in DOMAIN seq}

\* the text before the first tag
Lead(doc) == SubSeq(doc, 1, Least({j \in 1..Len(doc) : doc[j] = LT}, Len(doc) + 1) - 1)

\* two documents differ at most in the text runs of the elements marked (t, f)
SameOutside(a, b, t, f) ==
    /\ Len(Elems(a)) = Len(Elems(b))
    /\ Lead(a) = Lead(b)
    /\ \A k \in 1..Len(Elems(a)) :
          /\ TagOf(a, Elems(a)[k]) = TagOf(b, Elems(b)[k])
          /\ RunOf(a, Elems(a)[k]) # RunOf(b, Elems(b)[k])
                => (Marked(a, Elems(a)[k], t, f) /\ Elems(a)[k].closed)

\* how many elements differ, tag or text run, between two documents
ChangedElems(a, b) ==
    LET ea == Elems(a)
        eb == Elems(b)
        n == IF Len(ea) > Len(eb) THEN Len(ea) ELSE Len(eb)
    IN  Cardinality({k \in 1..n :
            \/ k > Len(ea)
            \/ k > Len(eb)
            \/ TagOf(a, ea[k]) # TagOf(b, eb[k])
            \/ RunOf(a, ea[k]) # RunOf(b, eb[k])})

(***************************************************************************)
(* The passes.                                                             *)
(***************************************************************************)
Pass(kind, t, f, v) ==
    [kind |-> kind, ticker |-> t, field |-> f, value |-> v,
     changes0 |-> changes, skipped0 |-> skipped, run |-> run]

Init ==
    /\ html \in Documents
    /\ data \in Records
    /\ changes = 0
    /\ skipped = 0
    /\ pc = "field"
    /\ ti = 1
    /\ fi = 1
    /\ run = 1
    /\ out1 = <<>>
    /\ prev = html
    /\ last = [kind |-> "init", ticker |-> "", field |-> "", value |-> None,
               changes0 |-> 0, skipped0 |-> 0, run |-> 1]
    /\ differ = 0

NextField ==
    IF fi < Len(SimpleFields)
    THEN fi' = fi + 1 /\ pc' = "field"
    ELSE fi' = fi /\ pc' = "range"

\* lines 154-157: the value is None
FieldSkip ==
    /\ pc = "field"
    /\ ~ticker_data[field].p
    /\ skipped' = SkipCount(skipped)
    /\ NextField
    /\ prev' = html
    /\ last' = Pass("skip", ticker_id, field, None)
    /\ UNCHANGED <<html, data, changes, ti, run, out1, differ>>

\* lines 159-173
FieldUpdate ==
    /\ pc = "field"
    /\ ticker_data[field].p
    /\ LET formatted == format_value(ticker_data[field], field, ticker_id)
           new_html == FieldRewrite(html, ticker_id, field, formatted)
       IN  /\ changes' = changes + FieldCount(html, new_html, ticker_id, field)
           /\ html' = new_html
           /\ differ' = differ + ChangedElems(html, new_html)
    /\ NextField
    /\ prev' = html
    /\ last' = Pass("field", ticker_id, field, ticker_data[field])
    /\ UNCHANGED <<data, skipped, ti, run, out1>>

\* lines 176-178: the high or the low is None
RangeSkip ==
    /\ pc = "range"
    /\ ~(ticker_data["52wk_high"].p /\ ticker_data["52wk_low"].p)
    /\ pc' = "class"
    /\ prev' = html
    /\ last' = Pass("norange", ticker_id, "52wk_range", None)
    /\ UNCHANGED <<html, data, changes, skipped, ti, fi, run, out1, differ>>

\* lines 176-214
RangeUpdate ==
    /\ pc = "range"
    /\ ticker_data["52wk_high"].p /\ ticker_data["52wk_low"].p
    /\ LET new_range == NewRange(ticker_id, ticker_data["52wk_low"], ticker_data["52wk_high"])
           new_html == RangeRewrite(html, ticker_id, data, new_range)
       IN  /\ changes' = changes + RangeCount(html, new_html)
           /\ html' = new_html
           /\ differ' = differ + ChangedElems(html, new_html)
    /\ pc' = "class"
    /\ prev' = html
    /\ last' = Pass("range", ticker_id, "52wk_range", None)
    /\ UNCHANGED <<data, skipped, ti, fi, run, out1>>

NextTicker ==
    IF ti < Len(Items(data))
    THEN ti' = ti + 1 /\ fi' = 1 /\ pc' = "field"
    ELSE ti' = ti /\ fi' = fi /\ pc' = "stamp"

\* lines 217-218: net_income is None
ClassSkip ==
    /\ pc = "class"
    /\ ~ticker_data["net_income"].p
    /\ NextTicker
    /\ prev' = html
    /\ last' = Pass("noclass", ticker_id, "net_income", None)
    /\ UNCHANGED <<html, data, changes, skipped, run, out1, differ>>

\* lines 217-231
ClassUpdate ==
    /\ pc = "class"
    /\ ticker_data["net_income"].p
    /\ html' = ClassToggle(html, ticker_id, ticker_data["net_income"])
    /\ NextTicker
    /\ prev' = html
    /\ last' = Pass("class", ticker_id, "net_income", ticker_data["net_income"])
    /\ UNCHANGED <<data, changes, skipped, run, out1, differ>>

\* lines 233-250
Stamp ==
    /\ pc = "stamp"
    /\ html' = Stamps(html)
    /\ pc' = "done"
    /\ prev' = html
    /\ last' = Pass("stamp", "", "", None)
    /\ UNCHANGED <<data, changes, skipped, ti, fi, run, out1, differ>>

\* update_html is called again on the document it returned, same data, same clock
Rerun ==
    /\ pc = "done"
    /\ run = 1
    /\ run' = 2
    /\ out1' = html
    /\ changes' = 0
    /\ skipped' = 0
    /\ differ' = 0
    /\ pc' = "field"
    /\ ti' = 1
    /\ fi' = 1
    /\ prev' = html
    /\ last' = [kind |-> "init", ticker |-> "", field |-> "", value |-> None,
                changes0 |-> 0, skipped0 |-> 0, run |-> 2]
    /\ UNCHANGED <<html, data>>

Next ==
    \/ FieldSkip
    \/ FieldUpdate
    \/ RangeSkip
    \/ RangeUpdate
    \/ ClassSkip
    \/ ClassUpdate
    \/ Stamp
    \/ Rerun

Spec == Init /\ [][Next]_vars

(***************************************************************************)
(* Properties.                                                             *)
(***************************************************************************)
FieldPassDone == last.kind = "field"

Formatted == format_value(last.value, last.field, last.ticker)

\* C1: calling update_html on its own result, with the same RawRecord and
\* the same clock, returns that result unchanged.
Idempotent == (pc = "done" /\ run = 2) => html = out1

\* C2: a field pass for (E, F) changes nothing outside the text runs of the
\* elements whose open tag carries data-ticker=E and data-field=F.
FieldPassFrame ==
    FieldPassDone =>
        SameOutside(prev, html, last.ticker, last.field)

\* a field pass rewrote one element and left an element of another ticker
\* or field alone
FieldPassFrameSeen ==
    /\ FieldPassDone
    /\ html # prev
    /\ \E el \in Range(Elems(html)) :
          /\ ~Marked(html, el, last.ticker, last.field)
          /\ \E t \in Range(TICKER_MAP) : Carries(html, el, TK(t))
          /\ Carries(html, el, FD(last.field))

\* C3 as claimed: after the field pass for (E, F) every element carrying
\* both markers, wherever they stand in the tag, shows format_value.
FieldPassCompleteAnyLayout ==
    FieldPassDone =>
        \A el \in Range(Elems(html)) :
            Marked(html, el, last.ticker, last.field) => RunOf(html, el) = Formatted

\* C3 amended: after the field pass for (E, F) every element whose two
\* markers stand next to each other, blanks only between them, in either
\* order, and whose text run a "<" ends, shows format_value.
FieldPassComplete ==
    FieldPassDone =>
        \A el \in Range(Elems(html)) :
            (el.closed /\ MarkedAdjacent(html, el, last.ticker, last.field))
                => RunOf(html, el) = Formatted

\* both marker orders were rewritten, to the same text, by one pass
FieldPassBothOrders ==
    /\ FieldPassDone
    /\ html # prev
    /\ \E a, b \in Range(Elems(html)) :
          /\ AdjacentIn(html, a, TK(last.ticker), FD(last.field))
          /\ AdjacentIn(html, b, FD(last.field), TK(last.ticker))
          /\ RunOf(html, a) = Formatted
          /\ RunOf(html, b) = Formatted

\* what a range text run of the documented shape is to become: the prefix
\* regenerated or copied, the new range, the suffix from the middle dot on
OtcEndsAt(t, n) ==
    /\ SubSeq(t, 1, 10) = OTC
    /\ \A j \in 11..(n - 3) : t[j] \in DigitDot
    /\ SubSeq(t, n - 2, n) = <<SP, MID, SP>>

OtcLen(t) ==
    IF \E n \in 14..Len(t) : OtcEndsAt(t, n)
    THEN CHOOSE n \in 14..Len(t) : OtcEndsAt(t, n)
    ELSE 0

FirstMid(t, from) == NextIn(t, from, {MID})

\* [US OTC: ~$<number> (middot) ] 52wk: <low> (endash) <high> [ (middot) <free text>]
RangeShaped(t) ==
    LET n == OtcLen(t)
        d == FirstMid(t, n + 1)
    IN  /\ Len(t) >= n + 6
        /\ SubSeq(t, n + 1, n + 6) = HDR
        /\ \E k \in (n + 7)..Len(t) : t[k] = "(endash)"
        /\ d # 0 => /\ d > n + 8
                    /\ t[d - 1] = SP
                    /\ d + 2 <= Len(t)
                    /\ t[d + 1] = SP
                    /\ \A j \in d..Len(t) : t[j] \notin {NL, LT, GT}

RangeExpected(t, ticker) ==
    LET n == OtcLen(t)
        d == FirstMid(t, n + 1)
        price == LyscfPrice(data)
        rec == data[ticker]
    IN  (IF n = 0 THEN <<>>
         ELSE IF price.p THEN OTC \o Fixed(price, 2, FALSE) \o <<SP, MID, SP>>
         ELSE SubSeq(t, 1, n))
        \o HDR \o CurrencyPrefix(ticker) \o Fixed(rec["52wk_low"], 2, TRUE)
        \o DASH \o CurrencyPrefix(ticker) \o Fixed(rec["52wk_high"], 2, TRUE)
        \o (IF d = 0 THEN <<>> ELSE <<SP>> \o SubSeq(t, d, Len(t)))

SameElements == Len(Elems(html)) = Len(Elems(prev))

\* C4: the range pass turns every range text run of the documented shape
\* into prefix + new range + suffix, and leaves the document alone when the
\* high or the low is absent.
RangeRewritten ==
    /\ last.kind = "norange" => html = prev
    /\ last.kind = "range" =>
        /\ SameElements
        /\ \A k \in 1..Len(Elems(prev)) :
              LET el == Elems(prev)[k]
                  old == RunOf(prev, el)
              IN  (el.closed /\ MarkedAdjacent(prev, el, last.ticker, "52wk_range")
                   /\ RangeShaped(old))
                  => RunOf(html, Elems(html)[k]) = RangeExpected(old, last.ticker)

\* the match of an element's own text run, in a string that is that run
OwnMatch(t) == [ok |-> TRUE, g |-> 0, l |-> Len(t) + 1]

\* C10: every range element the pass matches, in either marker order, gets
\* the prefix and the suffix decoded from its own text run.
RangeDecodesOwnText ==
    last.kind = "range" =>
        /\ SameElements
        /\ \A k \in 1..Len(Elems(prev)) :
              LET el == Elems(prev)[k]
                  old == RunOf(prev, el)
                  rec == data[last.ticker]
              IN  (el.closed /\ MarkedAdjacent(prev, el, last.ticker, "52wk_range"))
                  => RunOf(html, Elems(html)[k])
                       = range_replacer(old, OwnMatch(old), data,
                             NewRange(last.ticker, rec["52wk_low"], rec["52wk_high"]))

Expected(net_income) == IF net_income.m < 0 THEN "r" ELSE "g"

ClassAttrAt(doc, j) ==
    /\ j + 2 <= Len(doc)
    /\ doc[j] \in {CLASS_VAL, CLASS_MONO}
    /\ doc[j + 1] \in SignTokens
    /\ doc[j + 2] = QUOTE

\* C5 as claimed: after the class pass every element marked (E, net_income),
\* in either marker order, class before or after, val or mono, holds the
\* sign token of the net income.
ClassToggleEveryLayout ==
    last.kind = "class" =>
        \A el \in Range(Elems(html)) :
            Marked(html, el, last.ticker, "net_income") =>
                \A j \in el.ts..el.g :
                    ClassAttrAt(html, j) => html[j + 1] = Expected(last.value)

\* class="val X" or class="mono X" right before data-ticker data-field
LayoutBefore(doc, j, t) ==
    /\ ClassAttrAt(doc, j)
    /\ j + 6 <= Len(doc)
    /\ SubSeq(doc, j + 3, j + 6) = <<SP, TK(t), SP, FD("net_income")>>

\* data-ticker data-field, then class="val X" at j later in the same tag
LayoutAfter(doc, el, j, t) ==
    /\ ClassAttrAt(doc, j)
    /\ doc[j] = CLASS_VAL
    /\ \E i \in el.ts..(j - 3) :
          SubSeq(doc, i, i + 2) = <<TK(t), SP, FD("net_income")>>

\* C5 amended: the class pass sets the sign token of the three layouts
\* class="val X" data-ticker data-field, data-ticker data-field ...
\* class="val X", class="mono X" data-ticker data-field (single blanks,
\* ticker before field), and changes nothing but sign tokens.
ClassToggleLayouts ==
    last.kind = "class" =>
        /\ Len(html) = Len(prev)
        /\ \A j \in 1..Len(html) :
              html[j] # prev[j] => prev[j] \in SignTokens /\ html[j] = Expected(last.value)
        /\ \A el \in Range(Elems(html)) : \A j \in el.ts..el.g :
              (LayoutBefore(html, j, last.ticker) \/ LayoutAfter(html, el, j, last.ticker))
                  => html[j + 1] = Expected(last.value)

\* a net income of zero turned a red token green
ClassToggleSeen ==
    /\ last.kind = "class"
    /\ last.value.m = 0
    /\ \E j \in 1..Len(html) : prev[j] = "r" /\ html[j] = "g"

\* C6: an absent value adds one to skipped and leaves the document, and so
\* every element marked with that ticker and field, unchanged.
MissingValueSkipped ==
    last.kind = "skip" =>
        /\ html = prev
        /\ skipped = last.skipped0 + 1
        /\ changes = last.changes0

\* a value was absent for a field the document shows
MissingValueSeen ==
    /\ last.kind = "skip"
    /\ last.field = "target_price"
    /\ \E el \in Range(Elems(html)) : Marked(html, el, last.ticker, last.field)

NoElement(doc, t, f) ==
    \A el \in Range(Elems(doc)) : ~(el.closed /\ MarkedAdjacent(doc, el, t, f))

\* C7 as claimed: a present value whose pattern matches no element leaves
\* the document unchanged and is counted in skipped.
NoMatchCountedSkipped ==
    (FieldPassDone /\ NoElement(prev, last.ticker, last.field)) =>
        /\ html = prev
        /\ skipped = last.skipped0 + 1

\* C7 amended: a present value whose pattern matches no element leaves the
\* document and both counters unchanged.
NoMatchLeftAlone ==
    (FieldPassDone /\ NoElement(prev, last.ticker, last.field)) =>
        /\ html = prev
        /\ skipped = last.skipped0
        /\ changes = last.changes0

\* a present value found no element, in a document that shows the field
\* for another ticker
NoMatchSeen ==
    /\ FieldPassDone
    /\ NoElement(prev, last.ticker, last.field)
    /\ \E el \in Range(Elems(prev)) : Carries(prev, el, FD(last.field))

\* C8 as claimed: at the end, changes is the number of elements the field
\* and range passes changed.
ChangesCountsChanged == pc = "done" => changes = differ

MatchedElements(doc, t, f) ==
    Cardinality({k \in 1..Len(Elems(doc)) :
        Elems(doc)[k].closed /\ MarkedAdjacent(doc, Elems(doc)[k], t, f)})

\* C8 amended: a field pass that changed the document adds the number of
\* elements its two patterns matched, changed or not; a range pass that
\* changed the document adds one; nothing else adds to changes.
ChangesCountsMatched ==
    /\ FieldPassDone =>
          changes = last.changes0
                    + (IF html # prev THEN MatchedElements(prev, last.ticker, last.field)
                       ELSE 0)
    /\ last.kind = "range" => changes = last.changes0 + (IF html # prev THEN 1 ELSE 0)
    /\ last.kind \in {"skip", "norange", "class", "noclass", "stamp"} =>
          changes = last.changes0

\* a field pass matched two elements, one of them already up to date
ChangesOvercountSeen ==
    /\ FieldPassDone
    /\ changes = last.changes0 + 2
    /\ ChangedElems(prev, html) = 1

MinusSigns(text) == Cardinality({k \in 1..Len(text) : text[k] = "-"})

\* C9: a negative net income is written as "-", then what the positive
\* value of the same magnitude is written as: one minus sign, before the
\* currency prefix.
NegativeNetIncome ==
    (FieldPassDone /\ last.field = "net_income" /\ last.value.m < 0) =>
        /\ Formatted = <<"-">> \o format_value(NegOf(last.value), "net_income", last.ticker)
        /\ MinusSigns(Formatted) = 1
        /\ SubSeq(Formatted, 1, 1 + Len(CurrencyPrefix(last.ticker)))
             = <<"-">> \o CurrencyPrefix(last.ticker)

\* a negative net income of an AUD ticker was written into the document
NegativeNetIncomeSeen ==
    /\ FieldPassDone
    /\ last.field = "net_income"
    /\ last.value.m < 0
    /\ last.ticker \in AUD_TICKERS
    /\ \E el \in Range(Elems(html)) : RunOf(html, el) = <<"-", "A", "$", "3", ".", "2", "M">>

====
